---------------------------- MODULE Spec2Model ----------------------------
(***************************************************************************)
(* Model of packages/zk-wasm/src/lib.rs: the SHA-256 prefix hasher         *)
(* (compute_partial_hash_for_email and its helpers), the From-header       *)
(* locator, the split planner and the limb codec.                          *)
(*                                                                         *)
(* Bytes are the integers 0..255.  A u32 is kept as the pair               *)
(* <<high 16 bits, low 16 bits>> so that every intermediate value stays    *)
(* below 2^31; all u32 arithmetic is mod 2^32.                             *)
(***************************************************************************)
EXTENDS Integers, Sequences, FiniteSets, TLC

\* SHA256 block size in bytes
SHA256_BLOCK_SIZE == 64

(***************************************************************************)
(* u32 arithmetic                                                          *)
(***************************************************************************)
Half == 65536

K ==
  <<
    <<17034, 12184>>, <<28983, 17553>>, <<46528, 64463>>, <<59829, 56229>>,
    <<14678, 49755>>, <<23025, 4593>>, <<37439, 33444>>, <<43804, 24277>>,
    <<55303, 43672>>, <<4739, 23297>>, <<9265, 34238>>, <<21772, 32195>>,
    <<29374, 23924>>, <<32990, 45566>>, <<39900, 1703>>, <<49563, 61812>>,
    <<58523, 27073>>, <<61374, 18310>>, <<4033, 40390>>, <<9228, 41420>>,
    <<11753, 11375>>, <<19060, 33962>>, <<23728, 43484>>, <<30457, 35034>>,
    <<38974, 20818>>, <<43057, 50797>>, <<45059, 10184>>, <<48985, 32711>>,
    <<50912, 3059>>, <<54695, 37191>>, <<1738, 25425>>, <<5161, 10599>>,
    <<10167, 2693>>, <<11803, 8504>>, <<19756, 28156>>, <<21304, 3347>>,
    <<25866, 29524>>, <<30314, 2747>>, <<33218, 51502>>, <<37490, 11397>>,
    <<41663, 59553>>, <<43034, 26187>>, <<49739, 35696>>, <<51052, 20899>>,
    <<53650, 59417>>, <<54937, 1572>>, <<62478, 13701>>, <<4202, 41072>>,
    <<6564, 49430>>, <<7735, 27656>>, <<10056, 30540>>, <<13488, 48309>>,
    <<14620, 3251>>, <<20184, 43594>>, <<23452, 51791>>, <<26670, 28659>>,
    <<29839, 33518>>, <<30885, 25455>>, <<33992, 30740>>, <<36039, 520>>,
    <<37054, 65530>>, <<42064, 27883>>, <<48889, 41975>>, <<50801, 30962>>
  >>

InitialState ==
  <<
    <<27145, 58983>>, <<47975, 44677>>, <<15470, 62322>>, <<42319, 62778>>,
    <<20750, 21119>>, <<39685, 26764>>, <<8067, 55723>>, <<23520, 52505>>
  >>

XorNibble ==
  <<
    <<0, 1, 2, 3, 4, 5, 6, 7, 8, 9, 10, 11, 12, 13, 14, 15>>,
    <<1, 0, 3, 2, 5, 4, 7, 6, 9, 8, 11, 10, 13, 12, 15, 14>>,
    <<2, 3, 0, 1, 6, 7, 4, 5, 10, 11, 8, 9, 14, 15, 12, 13>>,
    <<3, 2, 1, 0, 7, 6, 5, 4, 11, 10, 9, 8, 15, 14, 13, 12>>,
    <<4, 5, 6, 7, 0, 1, 2, 3, 12, 13, 14, 15, 8, 9, 10, 11>>,
    <<5, 4, 7, 6, 1, 0, 3, 2, 13, 12, 15, 14, 9, 8, 11, 10>>,
    <<6, 7, 4, 5, 2, 3, 0, 1, 14, 15, 12, 13, 10, 11, 8, 9>>,
    <<7, 6, 5, 4, 3, 2, 1, 0, 15, 14, 13, 12, 11, 10, 9, 8>>,
    <<8, 9, 10, 11, 12, 13, 14, 15, 0, 1, 2, 3, 4, 5, 6, 7>>,
    <<9, 8, 11, 10, 13, 12, 15, 14, 1, 0, 3, 2, 5, 4, 7, 6>>,
    <<10, 11, 8, 9, 14, 15, 12, 13, 2, 3, 0, 1, 6, 7, 4, 5>>,
    <<11, 10, 9, 8, 15, 14, 13, 12, 3, 2, 1, 0, 7, 6, 5, 4>>,
    <<12, 13, 14, 15, 8, 9, 10, 11, 4, 5, 6, 7, 0, 1, 2, 3>>,
    <<13, 12, 15, 14, 9, 8, 11, 10, 5, 4, 7, 6, 1, 0, 3, 2>>,
    <<14, 15, 12, 13, 10, 11, 8, 9, 6, 7, 4, 5, 2, 3, 0, 1>>,
    <<15, 14, 13, 12, 11, 10, 9, 8, 7, 6, 5, 4, 3, 2, 1, 0>>
  >>

AndNibble ==
  <<
    <<0, 0, 0, 0, 0, 0, 0, 0, 0, 0, 0, 0, 0, 0, 0, 0>>,
    <<0, 1, 0, 1, 0, 1, 0, 1, 0, 1, 0, 1, 0, 1, 0, 1>>,
    <<0, 0, 2, 2, 0, 0, 2, 2, 0, 0, 2, 2, 0, 0, 2, 2>>,
    <<0, 1, 2, 3, 0, 1, 2, 3, 0, 1, 2, 3, 0, 1, 2, 3>>,
    <<0, 0, 0, 0, 4, 4, 4, 4, 0, 0, 0, 0, 4, 4, 4, 4>>,
    <<0, 1, 0, 1, 4, 5, 4, 5, 0, 1, 0, 1, 4, 5, 4, 5>>,
    <<0, 0, 2, 2, 4, 4, 6, 6, 0, 0, 2, 2, 4, 4, 6, 6>>,
    <<0, 1, 2, 3, 4, 5, 6, 7, 0, 1, 2, 3, 4, 5, 6, 7>>,
    <<0, 0, 0, 0, 0, 0, 0, 0, 8, 8, 8, 8, 8, 8, 8, 8>>,
    <<0, 1, 0, 1, 0, 1, 0, 1, 8, 9, 8, 9, 8, 9, 8, 9>>,
    <<0, 0, 2, 2, 0, 0, 2, 2, 8, 8, 10, 10, 8, 8, 10, 10>>,
    <<0, 1, 2, 3, 0, 1, 2, 3, 8, 9, 10, 11, 8, 9, 10, 11>>,
    <<0, 0, 0, 0, 4, 4, 4, 4, 8, 8, 8, 8, 12, 12, 12, 12>>,
    <<0, 1, 0, 1, 4, 5, 4, 5, 8, 9, 8, 9, 12, 13, 12, 13>>,
    <<0, 0, 2, 2, 4, 4, 6, 6, 8, 8, 10, 10, 12, 12, 14, 14>>,
    <<0, 1, 2, 3, 4, 5, 6, 7, 8, 9, 10, 11, 12, 13, 14, 15>>
  >>

Pow2(n) == <<1, 2, 4, 8, 16, 32, 64, 128, 256, 512, 1024, 2048, 4096,
             8192, 16384, 32768, 65536>>[n + 1]

\* bitwise ^ and & on 16-bit halves, nibble by nibble
Xor16(a, b) ==
  XorNibble[(a % 16) + 1][(b % 16) + 1]
  + 16 * XorNibble[((a \div 16) % 16) + 1][((b \div 16) % 16) + 1]
  + 256 * XorNibble[((a \div 256) % 16) + 1][((b \div 256) % 16) + 1]
  + 4096 * XorNibble[(a \div 4096) + 1][(b \div 4096) + 1]

And16(a, b) ==
  AndNibble[(a % 16) + 1][(b % 16) + 1]
  + 16 * AndNibble[((a \div 16) % 16) + 1][((b \div 16) % 16) + 1]
  + 256 * AndNibble[((a \div 256) % 16) + 1][((b \div 256) % 16) + 1]
  + 4096 * AndNibble[(a \div 4096) + 1][(b \div 4096) + 1]

\* x ^ y, x & y, !x on u32
Xor(x, y) == <<Xor16(x[1], y[1]), Xor16(x[2], y[2])>>

And(x, y) == <<And16(x[1], y[1]), And16(x[2], y[2])>>

Not(x) == <<(Half - 1) - x[1], (Half - 1) - x[2]>>

\* u32::wrapping_add
wrapping_add(x, y) ==
  LET lo == x[2] + y[2]
      hi == x[1] + y[1] + (lo \div Half)
  IN  <<hi % Half, lo % Half>>

\* u32::rotate_right, 0 < n < 32
rotate_right(x, n) ==
  LET y == IF n >= 16 THEN <<x[2], x[1]>> ELSE x
      m == IF n >= 16 THEN n - 16 ELSE n
      p == Pow2(m)
      q == Pow2(16 - m)
  IN  <<(y[1] \div p) + (y[2] % p) * q, (y[2] \div p) + (y[1] % p) * q>>

\* x >> n on u32, 0 < n < 16
Shr(x, n) ==
  LET p == Pow2(n)
      q == Pow2(16 - n)
  IN  <<x[1] \div p, (x[2] \div p) + (x[1] % p) * q>>

(***************************************************************************)
(* sha256_compress                                                         *)
(***************************************************************************)
\* w[i] for i in 16..64 (0-based i; w is 1-based here)
ScheduleWord(w, i) ==
  LET w15 == w[i - 15 + 1]
      w2  == w[i - 2 + 1]
      s0  == Xor(Xor(rotate_right(w15, 7), rotate_right(w15, 18)), Shr(w15, 3))
      s1  == Xor(Xor(rotate_right(w2, 17), rotate_right(w2, 19)), Shr(w2, 10))
  IN  wrapping_add(wrapping_add(wrapping_add(w[i - 16 + 1], s0), w[i - 7 + 1]), s1)

RECURSIVE MessageSchedule(_, _)
MessageSchedule(w, i) ==
  IF i >= 64 THEN w
  ELSE LET next == Append(w, ScheduleWord(w, i))
       IN  IF Len(next) = i + 1 THEN MessageSchedule(next, i + 1) ELSE next

\* one compression round on the working variables v = <<a,b,c,d,e,f,g,h>>
Round(v, w, i) ==
  LET a == v[1]
      b == v[2]
      c == v[3]
      d == v[4]
      e == v[5]
      f == v[6]
      g == v[7]
      h == v[8]
      s1 == Xor(Xor(rotate_right(e, 6), rotate_right(e, 11)), rotate_right(e, 25))
      ch == Xor(And(e, f), And(Not(e), g))
      temp1 == wrapping_add(wrapping_add(wrapping_add(wrapping_add(h, s1), ch),
                                         K[i + 1]), w[i + 1])
      s0 == Xor(Xor(rotate_right(a, 2), rotate_right(a, 13)), rotate_right(a, 22))
      maj == Xor(Xor(And(a, b), And(a, c)), And(b, c))
      temp2 == wrapping_add(s0, maj)
  IN  <<wrapping_add(temp1, temp2), a, b, c, wrapping_add(d, temp1), e, f, g>>

RECURSIVE CompressionRounds(_, _, _)
CompressionRounds(v, w, i) ==
  IF i >= 64 THEN v
  ELSE LET next == Round(v, w, i)
       IN  IF Len(next) = 8 THEN CompressionRounds(next, w, i + 1) ELSE next

sha256_compress(state, block) ==
  LET w == MessageSchedule(block, 16)
      v == CompressionRounds(state, w, 0)
  IN  [j \in 1..8 |-> wrapping_add(state[j], v[j])]

(***************************************************************************)
(* compute_sha256_partial_state                                            *)
(***************************************************************************)
\* data[from..to), 0-based half-open like a Rust slice
Slice(data, from, to) == SubSeq(data, from + 1, to)

\* variant: the words are read little-endian (u32::from_le_bytes)
prepare_block_le(chunk) ==
  [i \in 1..16 |-> <<chunk[4 * i] * 256 + chunk[4 * i - 1],
                     chunk[4 * i - 2] * 256 + chunk[4 * i - 3]>>]

\* sixteen big-endian u32 words of one 64-byte chunk
prepare_block(chunk) ==
  [i \in 1..16 |-> <<chunk[4 * i - 3] * 256 + chunk[4 * i - 2],
                     chunk[4 * i - 1] * 256 + chunk[4 * i]>>]

RECURSIVE HashChunks(_, _, _)
HashChunks(state, data, off) ==
  IF off >= Len(data) THEN state
  ELSE LET next == sha256_compress(state,
                      prepare_block(Slice(data, off, off + SHA256_BLOCK_SIZE)))
       IN  IF next[1][1] >= 0 THEN HashChunks(next, data, off + SHA256_BLOCK_SIZE)
           ELSE next

compute_sha256_partial_state(data) == HashChunks(InitialState, data, 0)

(***************************************************************************)
(* find_from_header_position / find_subsequence                            *)
(***************************************************************************)
\* Option<usize>
None == [some |-> FALSE]

Some(v) == [some |-> TRUE, val |-> v]

LF == 10

CR == 13

\* b"From:" and b"from:"
FromUpper == <<70, 114, 111, 109, 58>>

FromLower == <<102, 114, 111, 109, 58>>

\* u8::to_ascii_lowercase
to_ascii_lowercase(b) == IF b >= 65 /\ b <= 90 THEN b + 32 ELSE b

\* <[u8]>::eq_ignore_ascii_case
eq_ignore_ascii_case(a, b) ==
  /\ Len(a) = Len(b)
  /\ \A i \in 1..Len(a) : to_ascii_lowercase(a[i]) = to_ascii_lowercase(b[i])

\* variant: the windows are compared byte for byte (window == pattern)
find_subsequence_exact(data, pattern) ==
  LET hits == {p \in 0..(Len(data) - Len(pattern)) :
                 Slice(data, p, p + Len(pattern)) = pattern}
  IN  IF hits = {} THEN None
      ELSE Some(CHOOSE p \in hits : \A q \in hits : p <= q)

\* data.windows(pattern.len()).position(|window| window.eq_ignore_ascii_case(pattern))
find_subsequence(data, pattern) ==
  LET hits == {p \in 0..(Len(data) - Len(pattern)) :
                 eq_ignore_ascii_case(Slice(data, p, p + Len(pattern)), pattern)}
  IN  IF hits = {} THEN None
      ELSE Some(CHOOSE p \in hits : \A q \in hits : p <= q)

\* the four search patterns, in the order the loop tries them
patterns ==
  << <<LF>> \o FromUpper,
     <<CR, LF>> \o FromUpper,
     <<LF>> \o FromLower,
     <<CR, LF>> \o FromLower >>

RECURSIVE SearchPatterns(_, _)
SearchPatterns(data, k) ==
  IF k > Len(patterns) THEN None
  ELSE LET pattern == patterns[k]
           found == find_subsequence(data, pattern)
           newline_len == IF pattern[1] = CR THEN 2 ELSE 1
       IN  IF found.some THEN Some(found.val + newline_len)
           ELSE SearchPatterns(data, k + 1)

find_from_header_position(data) ==
  IF Len(data) >= 5 /\ eq_ignore_ascii_case(Slice(data, 0, 5), FromUpper)
  THEN Some(0)
  ELSE SearchPatterns(data, 1)

(***************************************************************************)
(* calculate_split_point                                                   *)
(***************************************************************************)
\* variant: a candidate equal to min_split is rejected (split <= min_split)
calculate_split_point_strict(min_split, from_pos) ==
  IF from_pos <= min_split
  THEN LET split == (min_split \div SHA256_BLOCK_SIZE) * SHA256_BLOCK_SIZE
       IN  IF split >= from_pos THEN 0 ELSE split
  ELSE LET max_split == from_pos - 1
           split == (max_split \div SHA256_BLOCK_SIZE) * SHA256_BLOCK_SIZE
       IN  IF split <= min_split THEN 0 ELSE split

\* variant: the second branch rounds from_pos itself down, not from_pos - 1
calculate_split_point_inclusive(min_split, from_pos) ==
  IF from_pos <= min_split
  THEN LET split == (min_split \div SHA256_BLOCK_SIZE) * SHA256_BLOCK_SIZE
       IN  IF split >= from_pos THEN 0 ELSE split
  ELSE LET max_split == from_pos
           split == (max_split \div SHA256_BLOCK_SIZE) * SHA256_BLOCK_SIZE
       IN  IF split < min_split THEN 0 ELSE split

calculate_split_point(min_split, from_pos) ==
  IF from_pos <= min_split
  THEN LET split == (min_split \div SHA256_BLOCK_SIZE) * SHA256_BLOCK_SIZE
       IN  IF split >= from_pos THEN 0 ELSE split
  ELSE LET max_split == from_pos - 1
           split == (max_split \div SHA256_BLOCK_SIZE) * SHA256_BLOCK_SIZE
       IN  IF split < min_split THEN 0 ELSE split

(***************************************************************************)
(* compute_partial_hash_for_email                                          *)
(***************************************************************************)
\* Result<_, JsValue>
Ok(v) == [ok |-> TRUE, val |-> v]

Err(msg) == [ok |-> FALSE, err |-> msg]

ErrNoFrom == "Could not find 'From:' header in email"

ErrTooClose == "From header is too close to the start for partial hashing"

\* the caller's reading of the planner's return value: 0 is the failure
split_or_error(split_point) ==
  IF split_point = 0 THEN Err(ErrTooClose) ELSE Ok(split_point)

\* the early return taken when the header fits in the circuit
no_precomputation(header_bytes) ==
  Ok([state |-> InitialState,
      remaining |-> header_bytes,
      total_length |-> Len(header_bytes),
      prehashed_length |-> 0])

\* variant: total_length counts only the bytes left for the circuit
split_result_short_total(header_bytes, split_point) ==
  LET prefix == Slice(header_bytes, 0, split_point)
      state == compute_sha256_partial_state(prefix)
      remaining == Slice(header_bytes, split_point, Len(header_bytes))
  IN  Ok([state |-> state,
          remaining |-> remaining,
          total_length |-> Len(remaining),
          prehashed_length |-> split_point])

\* the result built once a split point has been accepted
split_result(header_bytes, split_point) ==
  LET prefix == Slice(header_bytes, 0, split_point)
      state == compute_sha256_partial_state(prefix)
      remaining == Slice(header_bytes, split_point, Len(header_bytes))
  IN  Ok([state |-> state,
          remaining |-> remaining,
          total_length |-> Len(header_bytes),
          prehashed_length |-> split_point])

\* variant: the early return is taken only when header_len < max_remaining_len
compute_partial_hash_for_email_strict(header_bytes, max_remaining_len) ==
  LET header_len == Len(header_bytes)
  IN  IF header_len < max_remaining_len
      THEN no_precomputation(header_bytes)
      ELSE
        LET from_pos == find_from_header_position(header_bytes)
        IN  IF ~from_pos.some THEN Err(ErrNoFrom)
            ELSE
              LET min_split == IF header_len > max_remaining_len
                               THEN header_len - max_remaining_len
                               ELSE 0
                  planned == split_or_error(
                               calculate_split_point(min_split, from_pos.val))
              IN  IF ~planned.ok THEN planned
                  ELSE split_result(header_bytes, planned.val)

compute_partial_hash_for_email(header_bytes, max_remaining_len) ==
  LET header_len == Len(header_bytes)
  IN  IF header_len <= max_remaining_len
      THEN no_precomputation(header_bytes)
      ELSE
        LET from_pos == find_from_header_position(header_bytes)
        IN  IF ~from_pos.some THEN Err(ErrNoFrom)
            ELSE
              LET min_split == IF header_len > max_remaining_len
                               THEN header_len - max_remaining_len
                               ELSE 0
                  planned == split_or_error(
                               calculate_split_point(min_split, from_pos.val))
              IN  IF ~planned.ok THEN planned
                  ELSE split_result(header_bytes, planned.val)

(***************************************************************************)
(* Limb codec: bigint_to_limbs, calculate_redc_param                       *)
(***************************************************************************)
RECURSIVE Exp2(_)
Exp2(n) == IF n = 0 THEN 1 ELSE 2 * Exp2(n - 1)

\* BigUint::to_string: decimal digits as ASCII bytes, no leading zeros
RECURSIVE to_string(_)
to_string(n) ==
  IF n < 10 THEN <<48 + n>> ELSE Append(to_string(n \div 10), 48 + (n % 10))

\* variant: the loop never shifts temp, so every limb is the lowest one
RECURSIVE LimbLoop_no_shift(_, _, _, _)
LimbLoop_no_shift(limbs, temp, remaining_iters, limb_bits) ==
  IF remaining_iters = 0 THEN limbs
  ELSE LET limb_mask == Exp2(limb_bits) - 1
           limb == temp % (limb_mask + 1)
       IN  LimbLoop_no_shift(Append(limbs, to_string(limb)),
                             temp,
                             remaining_iters - 1, limb_bits)

RECURSIVE LimbLoop(_, _, _, _)
LimbLoop(limbs, temp, remaining_iters, limb_bits) ==
  IF remaining_iters = 0 THEN limbs
  ELSE LET limb_mask == Exp2(limb_bits) - 1
           limb == temp % (limb_mask + 1)
       IN  LimbLoop(Append(limbs, to_string(limb)),
                    temp \div Exp2(limb_bits),
                    remaining_iters - 1, limb_bits)

bigint_to_limbs(value, num_limbs, limb_bits) ==
  LimbLoop(<<>>, value, num_limbs, limb_bits)

\* vec!["0".to_string(); num_limbs]
calculate_redc_param(modulus, num_limbs, limb_bits) ==
  [i \in 1..num_limbs |-> <<48>>]

(***************************************************************************)
(* find_from_header_info                                                   *)
(*                                                                         *)
(* The text is ASCII, one byte per character.  The two regular expressions *)
(* are matched the way the regex crate matches them: the leftmost start,   *)
(* and at that start the first alternative and the greediest repetition    *)
(* that lets the rest of the pattern match.                                *)
(***************************************************************************)
\* the first (smallest) offset of a set of offsets
Min(S) == CHOOSE p \in S : \A q \in S : p <= q

\* \s
SpaceChars == {9, 10, 11, 12, 13, 32}

\* [^\r\n]
LineChars == (0..127) \ {LF, CR}

\* [^>]
NotGtChars == (0..127) \ {62}

\* [a-zA-Z]
LetterChars == (65..90) \cup (97..122)

\* [a-zA-Z0-9._%+-]
LocalChars == LetterChars \cup (48..57) \cup {46, 95, 37, 43, 45}

\* [a-zA-Z0-9.-]
DomainChars == LetterChars \cup (48..57) \cup {46, 45}

\* end (0-based, exclusive) of the longest run of bytes of class starting at i
RunEnd(text, i, class) ==
  Min({q \in i..Len(text) : q = Len(text) \/ text[q + 1] \notin class})

\* (?im)^From:\s*([^\r\n]+) tried at offset p: the match and group 1
from_regex_at(email, p) ==
  IF ~(/\ p + 5 <= Len(email)
       /\ (p = 0 \/ email[p] = LF)
       /\ eq_ignore_ascii_case(Slice(email, p, p + 5), FromUpper))
  THEN None
  ELSE LET ws_end == RunEnd(email, p + 5, SpaceChars)
           starts == {k \in (p + 5)..ws_end :
                        k < Len(email) /\ email[k + 1] \in LineChars}
       IN  IF starts = {} THEN None
           ELSE LET k == CHOOSE x \in starts : \A y \in starts : y <= x
                    e == RunEnd(email, k, LineChars)
                IN  Some([start |-> p, end |-> e, content |-> Slice(email, k, e)])

\* from_regex.captures(email)
from_regex(email) ==
  LET hits == {p \in 0..Len(email) : from_regex_at(email, p).some}
  IN  IF hits = {} THEN None ELSE from_regex_at(email, Min(hits))

\* <([^>]+)> tried at offset i: group 1
angle_at(content, i) ==
  IF ~(i < Len(content) /\ content[i + 1] = 60) THEN None
  ELSE LET e == RunEnd(content, i + 1, NotGtChars)
       IN  IF e > i + 1 /\ e < Len(content)
           THEN Some(Slice(content, i + 1, e))
           ELSE None

\* ([a-zA-Z0-9._%+-]+@[a-zA-Z0-9.-]+\.[a-zA-Z]{2,}) tried at offset i: group 2
bare_at(content, i) ==
  LET at == RunEnd(content, i, LocalChars)
  IN  IF ~(at > i /\ at < Len(content) /\ content[at + 1] = 64) THEN None
      ELSE LET dom_end == RunEnd(content, at + 1, DomainChars)
               dots == {q \in (at + 2)..(dom_end - 1) :
                          /\ content[q + 1] = 46
                          /\ RunEnd(content, q + 1, LetterChars) >= q + 3}
           IN  IF dots = {} THEN None
               ELSE LET q == CHOOSE x \in dots : \A y \in dots : y <= x
                    IN  Some(Slice(content, i,
                                   RunEnd(content, q + 1, LetterChars)))

\* email_regex.captures(from_content), then get(1).or_else(get(2))
email_regex(content) ==
  LET hits == {i \in 0..Len(content) :
                 angle_at(content, i).some \/ bare_at(content, i).some}
  IN  IF hits = {} THEN None
      ELSE LET i == Min(hits)
           IN  IF angle_at(content, i).some THEN angle_at(content, i)
               ELSE bare_at(content, i)

\* str::to_lowercase
to_lowercase(str) == [i \in 1..Len(str) |-> to_ascii_lowercase(str[i])]

\* str::find
str_find(haystack, needle) ==
  LET hits == {p \in 0..(Len(haystack) - Len(needle)) :
                 Slice(haystack, p, p + Len(needle)) = needle}
  IN  IF hits = {} THEN None ELSE Some(Min(hits))

ErrNoFromHeader == "No From header found"

ErrNoAddress == "No email address found in From header"

ErrAddressNotInEmail == "Could not find email address in email"

find_from_header_info(email) ==
  LET captures == from_regex(email)
  IN  IF ~captures.some THEN Err(ErrNoFromHeader)
      ELSE
        LET from_index == captures.val.start
            from_length == captures.val.end - captures.val.start
            email_captures == email_regex(captures.val.content)
        IN  IF ~email_captures.some THEN Err(ErrNoAddress)
            ELSE
              LET from_email == to_lowercase(email_captures.val)
                  addr_index == str_find(email, from_email)
              IN  IF ~addr_index.some THEN Err(ErrAddressNotInEmail)
                  ELSE Ok([from_index |-> from_index,
                           from_length |-> from_length,
                           addr_index |-> addr_index.val,
                           addr_length |-> Len(from_email),
                           from_email |-> from_email])

(***************************************************************************)
(* Inputs                                                                  *)
(***************************************************************************)
\* planner arguments range over 0..MaxPos
MaxPos == 140

\* From: positions lie within MaxNear bytes of one of the first MaxBlocks
\* block boundaries
MaxBlocks == 2

MaxNear == 1

\* locator inputs are concatenations of at most MaxPieces pieces
MaxPieces == 4

\* texts for find_from_header_info are concatenations of at most
\* MaxInfoPieces pieces
MaxInfoPieces == 4

\* limb codec arguments
MaxValue == 300

MaxLimbs == 3

MaxLimbBits == 4

NearBoundary ==
  {p \in 0..(MaxBlocks * SHA256_BLOCK_SIZE + MaxNear) :
     \E b \in 0..MaxBlocks :
       /\ p - b * SHA256_BLOCK_SIZE <= MaxNear
       /\ b * SHA256_BLOCK_SIZE - p <= MaxNear}

\* n bytes of lower-case letters closed by a line break
Filler(n, crlf) ==
  [i \in 1..n |->
     IF i = n THEN LF
     ELSE IF crlf /\ i = n - 1 THEN CR
     ELSE 97 + (i % 26)]

\* "lf":   "From:" after \n, followed by 52 more bytes
\* "crlf": "FROM:" after \r\n, ending the header
\* "none": no From header at all ("Form:")
HeaderStyles == {"lf", "crlf", "none"}

Token(style) ==
  CASE style = "lf" -> FromUpper
    [] style = "crlf" -> <<70, 82, 79, 77, 58>>
    [] style = "none" -> <<70, 111, 114, 109, 58>>

\* " a@b.cc\r\n" and then printable bytes
TailBytes(style) ==
  IF style = "lf"
  THEN <<32, 97, 64, 98, 46, 99, 99, 13, 10>> \o [i \in 1..43 |-> 32 + i]
  ELSE <<>>

Header(pre, style) ==
  Filler(pre, style = "crlf") \o Token(style) \o TailBytes(style)

\* len(header) - capacity: the header fits (-1, 0), or is over by an amount
\* at the edges of the planner's cases for a From: header at offset pre
Overs(pre, header_len) ==
  LET below == ((pre - 1) \div SHA256_BLOCK_SIZE) * SHA256_BLOCK_SIZE
  IN  {o \in {-1, 0, 1, below - 1, below, below + 1, pre - 1, pre, pre + 1,
              header_len} : o >= -1 /\ o <= header_len}

ComputeCalls ==
  UNION {LET h == Header(pre, style)
         IN  {[op |-> "compute_partial_hash_for_email",
               header_bytes |-> h,
               max_remaining_len |-> Len(h) - over] : over \in Overs(pre, Len(h))}
         : pre \in NearBoundary, style \in HeaderStyles}

Pieces ==
  << FromUpper,
     FromLower,
     <<70, 82, 79, 77, 58>>,
     <<LF>>,
     <<CR, LF>>,
     <<CR>>,
     <<120>>,
     <<70, 114, 111, 109>> >>

RECURSIVE Concat(_)
Concat(ids) ==
  IF ids = <<>> THEN <<>> ELSE Pieces[Head(ids)] \o Concat(Tail(ids))

LocatorInputs ==
  {Concat(ids) : ids \in UNION {[1..n -> 1..Len(Pieces)] : n \in 0..MaxPieces}}

\* "From:", "fRoM:", "\n", " ", "<", ">", "a@b.io", "A@b.io"
InfoPieces ==
  << FromUpper,
     <<102, 82, 111, 77, 58>>,
     <<LF>>,
     <<32>>,
     <<60>>,
     <<62>>,
     <<97, 64, 98, 46, 105, 111>>,
     <<65, 64, 98, 46, 105, 111>> >>

RECURSIVE ConcatInfo(_)
ConcatInfo(ids) ==
  IF ids = <<>> THEN <<>> ELSE InfoPieces[Head(ids)] \o ConcatInfo(Tail(ids))

InfoInputs ==
  {ConcatInfo(ids) :
     ids \in UNION {[1..n -> 1..Len(InfoPieces)] : n \in 0..MaxInfoPieces}}

(***************************************************************************)
(* State machine: a pending call and, once it has run, its return value    *)
(***************************************************************************)
VARIABLES pc, call, ret

vars == <<pc, call, ret>>

Init ==
  /\ pc = "call"
  /\ ret = "pending"
  /\ \/ call \in [op : {"calculate_split_point"},
                  min_split : 0..MaxPos, from_pos : 0..MaxPos]
     \/ call \in {[op |-> "find_from_header_position", data |-> d] :
                    d \in LocatorInputs}
     \/ call \in ComputeCalls
     \/ call \in {[op |-> "find_from_header_info", email |-> e] :
                    e \in InfoInputs}
     \/ call \in [op : {"bigint_to_limbs"}, value : 0..MaxValue,
                  num_limbs : 0..MaxLimbs, limb_bits : 0..MaxLimbBits]
     \/ call \in [op : {"calculate_redc_param"},
                  modulus : {m \in 1..MaxValue : m % 2 = 1},
                  num_limbs : 0..MaxLimbs, limb_bits : 0..MaxLimbBits]

Return(op, value) ==
  /\ pc = "call"
  /\ call.op = op
  /\ ret' = value
  /\ pc' = "done"
  /\ UNCHANGED call

\* the planner together with its caller's reading of the result
CalculateSplitPoint ==
  /\ call.op = "calculate_split_point"
  /\ LET split_point == calculate_split_point(call.min_split, call.from_pos)
     IN  Return("calculate_split_point",
                [split_point |-> split_point,
                 outcome |-> split_or_error(split_point)])

FindFromHeaderPosition ==
  /\ call.op = "find_from_header_position"
  /\ Return("find_from_header_position", find_from_header_position(call.data))

ComputePartialHashForEmail ==
  /\ call.op = "compute_partial_hash_for_email"
  /\ Return("compute_partial_hash_for_email",
            compute_partial_hash_for_email(call.header_bytes,
                                           call.max_remaining_len))

BigintToLimbs ==
  /\ call.op = "bigint_to_limbs"
  /\ Return("bigint_to_limbs",
            bigint_to_limbs(call.value, call.num_limbs, call.limb_bits))

CalculateRedcParam ==
  /\ call.op = "calculate_redc_param"
  /\ Return("calculate_redc_param",
            calculate_redc_param(call.modulus, call.num_limbs, call.limb_bits))

FindFromHeaderInfo ==
  /\ call.op = "find_from_header_info"
  /\ Return("find_from_header_info", find_from_header_info(call.email))

Next ==
  \/ CalculateSplitPoint
  \/ FindFromHeaderPosition
  \/ ComputePartialHashForEmail
  \/ BigintToLimbs
  \/ CalculateRedcParam
  \/ FindFromHeaderInfo

Spec == Init /\ [][Next]_vars

Returned(op) == pc = "done" /\ call.op = op

(***************************************************************************)
(* Reference definitions used by the properties                            *)
(***************************************************************************)
\* a u32 written as its four bytes, most significant first
Word(b3, b2, b1, b0) == <<b3 * 256 + b2, b1 * 256 + b0>>

\* 0x6a09e667, 0xbb67ae85, 0x3c6ef372, 0xa54ff53a,
\* 0x510e527f, 0x9b05688c, 0x1f83d9ab, 0x5be0cd19
CanonicalIV ==
  << Word(106, 9, 230, 103), Word(187, 103, 174, 133),
     Word(60, 110, 243, 114), Word(165, 79, 245, 58),
     Word(81, 14, 82, 127), Word(155, 5, 104, 140),
     Word(31, 131, 217, 171), Word(91, 224, 205, 25) >>

\* standard SHA-256 padding of msg as the tail of a message of
\* total_length bytes: 0x80, zeros up to 56 mod 64, 64-bit big-endian bit count
Pad(msg, total_length) ==
  LET zeros == (55 + SHA256_BLOCK_SIZE - (Len(msg) % SHA256_BLOCK_SIZE))
                 % SHA256_BLOCK_SIZE
      bits == total_length * 8
  IN  msg \o <<128>> \o [i \in 1..zeros |-> 0]
          \o <<0, 0, 0, 0, (bits \div 16777216) % 256, (bits \div 65536) % 256,
               (bits \div 256) % 256, bits % 256>>

\* the k-th (0-based) 64-byte block of bytes as sixteen big-endian words
BlockWords(bytes, k) ==
  [i \in 1..16 |->
     Word(bytes[64 * k + 4 * i - 3], bytes[64 * k + 4 * i - 2],
          bytes[64 * k + 4 * i - 1], bytes[64 * k + 4 * i])]

RECURSIVE FoldBlocks(_, _, _)
FoldBlocks(state, bytes, k) ==
  IF 64 * k >= Len(bytes) THEN state
  ELSE LET next == sha256_compress(state, BlockWords(bytes, k))
       IN  IF next[1][1] >= 0 THEN FoldBlocks(next, bytes, k + 1) ELSE next

\* SHA-256(msg), as the eight words of the digest
Sha256(msg) == FoldBlocks(CanonicalIV, Pad(msg, Len(msg)), 0)

\* finishing the hash from a midstate over the bytes not yet consumed
Resume(state, remaining, total_length) ==
  FoldBlocks(state, Pad(remaining, total_length), 0)

\* SHA-256("abc") = ba7816bf 8f01cfea 414140de 5dae2223
\*                  b00361a3 96177a9c b410ff61 f20015ad
AbcDigest ==
  << Word(186, 120, 22, 191), Word(143, 1, 207, 234),
     Word(65, 65, 64, 222), Word(93, 174, 34, 35),
     Word(176, 3, 97, 163), Word(150, 23, 122, 156),
     Word(180, 16, 255, 97), Word(242, 0, 21, 173) >>

\* the compression function reproduces the published digest of "abc"
AbcVectorHolds == Sha256(<<97, 98, 99>>) = AbcDigest

\* BigUint parsed back from its decimal string
RECURSIVE from_decimal(_)
from_decimal(digits) ==
  IF digits = <<>> THEN 0
  ELSE 10 * from_decimal(SubSeq(digits, 1, Len(digits) - 1))
       + (digits[Len(digits)] - 48)

\* sum_i limb_i * 2^(bits*i), little-endian
RECURSIVE DecodeLimbs(_, _)
DecodeLimbs(limbs, bits) ==
  IF limbs = <<>> THEN 0
  ELSE from_decimal(Head(limbs)) + Exp2(bits) * DecodeLimbs(Tail(limbs), bits)

\* offsets of a "From:" token (any letter case) at the start of a line
LineStartFroms(data) ==
  {p \in 0..(Len(data) - 5) :
     /\ eq_ignore_ascii_case(Slice(data, p, p + 5), FromUpper)
     /\ (p = 0 \/ data[p] = LF)}

Floor64(n) == n - (n % 64)

ComputeReturned == Returned("compute_partial_hash_for_email")

PlannerReturned == Returned("calculate_split_point")

(***************************************************************************)
(* Properties                                                              *)
(***************************************************************************)
\* C1: a header no longer than the capacity is returned whole, with
\* prehashed_length 0, total_length = len(header) and the SHA-256 initial
\* vector as state, whether or not it contains a From: header.
C1_FitsInCircuit ==
  (ComputeReturned /\ Len(call.header_bytes) <= call.max_remaining_len)
    => ret = Ok([state |-> CanonicalIV,
                 remaining |-> call.header_bytes,
                 total_length |-> Len(call.header_bytes),
                 prehashed_length |-> 0])

C1_Witness ==
  /\ ComputeReturned
  /\ Len(call.header_bytes) = call.max_remaining_len
  /\ Len(call.header_bytes) > SHA256_BLOCK_SIZE
  /\ LineStartFroms(call.header_bytes) = {}
  /\ ret.ok

\* C2: a nonzero split returned by the planner is a multiple of 64 strictly
\* below from_pos; and when a prefix was pre-hashed, the From: token found by
\* the locator lies wholly inside remaining, at from_pos - prehashed_length.
C2_SplitBeforeFrom ==
  /\ (PlannerReturned /\ ret.split_point # 0)
       => /\ ret.split_point % 64 = 0
          /\ ret.split_point < call.from_pos
  /\ (ComputeReturned /\ ret.ok /\ ret.val.prehashed_length > 0)
       => LET from_pos == Min(LineStartFroms(call.header_bytes))
              off == from_pos - ret.val.prehashed_length
          IN  /\ ret.val.prehashed_length % 64 = 0
              /\ off >= 0
              /\ off + 5 <= Len(ret.val.remaining)
              /\ eq_ignore_ascii_case(Slice(ret.val.remaining, off, off + 5),
                                      FromUpper)

C2_Witness ==
  /\ ComputeReturned
  /\ ret.ok
  /\ ret.val.prehashed_length = 128
  /\ Min(LineStartFroms(call.header_bytes)) = 129

\* C3: a successful split is at least min_split, in both planner branches;
\* so after precomputation remaining is no longer than the capacity.
C3_SplitCoversMinSplit ==
  /\ (PlannerReturned /\ ret.outcome.ok)
       => ret.split_point >= call.min_split
  /\ (ComputeReturned /\ ret.ok /\ ret.val.prehashed_length > 0)
       => Len(ret.val.remaining) <= call.max_remaining_len

\* C4: when the header exceeds the capacity by at least from_pos, the call
\* fails as unsplittable and produces no midstate.
C4_UnsplittableWhenFromInTail ==
  (/\ ComputeReturned
   /\ Len(call.header_bytes) > call.max_remaining_len
   /\ LineStartFroms(call.header_bytes) # {}
   /\ Len(call.header_bytes) - call.max_remaining_len
        >= Min(LineStartFroms(call.header_bytes)))
    => ret = Err(ErrTooClose)

\* C5: round trip.  Resuming SHA-256 from the returned state over the padded
\* remaining bytes (length suffix from total_length) gives SHA-256(header);
\* the padded header is the hashed prefix followed by the padded remainder;
\* and the compression function reproduces the SHA-256 digest of "abc".
C5_RoundTrip ==
  (ComputeReturned /\ ret.ok)
    => /\ Resume(ret.val.state, ret.val.remaining, ret.val.total_length)
            = Sha256(call.header_bytes)
       /\ Pad(call.header_bytes, Len(call.header_bytes))
            = Slice(call.header_bytes, 0, ret.val.prehashed_length)
                \o Pad(ret.val.remaining, ret.val.total_length)
       /\ AbcVectorHolds

C5_Witness ==
  /\ ComputeReturned
  /\ ret.ok
  /\ ret.val.prehashed_length = 128
  /\ ret.val.state # CanonicalIV
  /\ Len(ret.val.remaining) > 0

\* C6: every result partitions the header: prehashed_length is a multiple of
\* 64, total_length = len(header) = prehashed_length + len(remaining), and
\* remaining = header[prehashed_length..].
C6_ResultPartitionsHeader ==
  (ComputeReturned /\ ret.ok)
    => /\ ret.val.prehashed_length % 64 = 0
       /\ ret.val.total_length = Len(call.header_bytes)
       /\ ret.val.total_length
            = ret.val.prehashed_length + Len(ret.val.remaining)
       /\ ret.val.remaining
            = Slice(call.header_bytes, ret.val.prehashed_length,
                    Len(call.header_bytes))

C6_Witness ==
  /\ ComputeReturned
  /\ ret.ok
  /\ ret.val.prehashed_length = 64
  /\ Len(ret.val.remaining) > SHA256_BLOCK_SIZE

\* C7: the locator returns the smallest offset of a "From:" token (any letter
\* case) that is at offset 0 or right after '\n', and None exactly when there
\* is none; the order of the four patterns never prefers a later occurrence.
C7_FirstLineStartFrom ==
  Returned("find_from_header_position")
    => IF LineStartFroms(call.data) = {}
       THEN ret = None
       ELSE ret = Some(Min(LineStartFroms(call.data)))

C7_Witness ==
  /\ Returned("find_from_header_position")
  /\ Cardinality(LineStartFroms(call.data)) >= 2
  /\ LET first == Min(LineStartFroms(call.data))
     IN  /\ first > 0
         /\ Slice(call.data, first, first + 5) = FromLower
         /\ \E q \in LineStartFroms(call.data) :
              q > first /\ Slice(call.data, q, q + 5) = FromUpper
         /\ ret = Some(first)

\* C8: limb round trip.  bigint_to_limbs(v, N, bits) returns exactly N limbs,
\* each in [0, 2^bits), whose little-endian weighted sum is v when
\* v < 2^(N*bits) and v mod 2^(N*bits) otherwise.
C8_LimbRoundTrip ==
  Returned("bigint_to_limbs")
    => LET R == Exp2(call.num_limbs * call.limb_bits)
           sum == DecodeLimbs(ret, call.limb_bits)
       IN  /\ Len(ret) = call.num_limbs
           /\ \A i \in 1..Len(ret) :
                /\ ret[i] = to_string(from_decimal(ret[i]))
                /\ from_decimal(ret[i]) >= 0
                /\ from_decimal(ret[i]) < Exp2(call.limb_bits)
           /\ (call.value < R => sum = call.value)
           /\ (call.value >= R => sum = call.value % R)

C8_Witness ==
  /\ Returned("bigint_to_limbs")
  /\ call.num_limbs = 2
  /\ call.limb_bits = 4
  /\ call.value >= Exp2(8)
  /\ from_decimal(ret[1]) >= 10
  /\ from_decimal(ret[2]) > 0
  /\ DecodeLimbs(ret, call.limb_bits) < call.value

\* C9: for an odd modulus m the limbs of calculate_redc_param(m, count, bits)
\* decode to redc with m * redc = -1 (mod 2^(count*bits)).
C9_RedcIsMontgomeryConstant ==
  Returned("calculate_redc_param")
    => LET R == Exp2(call.num_limbs * call.limb_bits)
           redc == DecodeLimbs(ret, call.limb_bits)
       IN  /\ Len(ret) = call.num_limbs
           /\ (call.modulus * redc + 1) % R = 0

\* C10: the planner's failure is distinct from every split value.  It is
\* reported exactly when rule 1 or rule 2 names it; in every other case the
\* rule's value is returned as a successful split, also when that value is 0.
C10_FailureIsNotZero ==
  PlannerReturned
    => LET rule1 == call.from_pos <= call.min_split
           value == IF rule1 THEN Floor64(call.min_split)
                    ELSE Floor64(call.from_pos - 1)
           fails == IF rule1 THEN value >= call.from_pos
                    ELSE value < call.min_split
       IN  IF fails THEN ~ret.outcome.ok
           ELSE ret.outcome = Ok(value)

\* multiples of 64 in [len(header) - capacity, from_pos) for a compute call
\* whose header exceeds the capacity and has a From: header
LegalSplits ==
  LET min_split == Len(call.header_bytes) - call.max_remaining_len
      from_pos == Min(LineStartFroms(call.header_bytes))
  IN  {s \in 0..Len(call.header_bytes) :
         s % 64 = 0 /\ min_split <= s /\ s < from_pos}

\* C13: planner completeness and maximality.  When the header exceeds the
\* capacity and some multiple of 64 lies in [len - capacity, from_pos), the
\* call succeeds and prehashed_length is the largest such multiple; it is
\* never unsplittable while a legal split exists.
C13_LargestLegalSplit ==
  (/\ ComputeReturned
   /\ Len(call.header_bytes) > call.max_remaining_len
   /\ LineStartFroms(call.header_bytes) # {}
   /\ LegalSplits # {})
    => /\ ret.ok
       /\ ret.val.prehashed_length \in LegalSplits
       /\ \A s \in LegalSplits : s <= ret.val.prehashed_length

C13_Witness ==
  /\ ComputeReturned
  /\ Len(call.header_bytes) > call.max_remaining_len
  /\ LineStartFroms(call.header_bytes) # {}
  /\ Cardinality(LegalSplits) >= 2
  /\ ret.ok
  /\ ret.val.prehashed_length = 128

InfoReturned == Returned("find_from_header_info")

\* the address on the first line of text that begins with "From:" (any
\* letter case): what stands inside angle brackets, or a bare
\* local-part@domain token; None when there is no such line or address
FromLineAddress(text) ==
  IF LineStartFroms(text) = {} THEN None
  ELSE LET p == Min(LineStartFroms(text))
           line_end == RunEnd(text, p, LineChars)
       IN  email_regex(Slice(text, p + 5, line_end))

\* C11: find_from_header_info fails only for want of a From line or of an
\* address on it.  When the first From line holds an address, in any letter
\* case, the call succeeds, returns the address lowercased, and reports as
\* addressStart/addressLength the first offset of that address in the full
\* text and its length.
C11_SucceedsWhenFromLineHasAddress ==
  (InfoReturned /\ FromLineAddress(call.email).some)
    => LET address == to_lowercase(FromLineAddress(call.email).val)
       IN  /\ ret.ok
           /\ ret.val.from_email = address
           /\ Some(ret.val.addr_index) = str_find(call.email, address)
           /\ ret.val.addr_length = Len(address)

\* C12: on success the address range lies inside the From-header range and
\* the text at the address range is the returned address, also when the same
\* address occurs earlier in the text.
C12_AddressInsideFromHeader ==
  (InfoReturned /\ ret.ok)
    => /\ ret.val.from_index <= ret.val.addr_index
       /\ ret.val.addr_index + ret.val.addr_length
            <= ret.val.from_index + ret.val.from_length
       /\ Slice(call.email, ret.val.addr_index,
                ret.val.addr_index + ret.val.addr_length) = ret.val.from_email

====
